---- MODULE Spec2Model ----
(***************************************************************************)
(* A model of the OpenShift image-stream transport:                        *)
(*   - openshiftClient.doRequest's classification of an HTTP response,     *)
(*   - manifestSchema2FromManifestList's choice of a platform manifest,    *)
(*   - openshiftImageDestination (PutManifest, PutSignatures, Close),      *)
(*   - openshiftImageSource (resolution, the accessors, Close).            *)
(* Each part has its own specification over the shared variables; the      *)
(* variables of the other parts stay at their initial values.              *)
(***************************************************************************)
EXTENDS Integers, Sequences, FiniteSets, TLC

VARIABLES
    res,            \* doRequest: the HTTP response under classification
    reqOut,         \* doRequest: what the call returned for res ("none" before)
    list,           \* selector: list.Manifests as decoded from manblob
    platform,       \* selector: runtime.GOARCH / runtime.GOOS of the build
    targetCalls,    \* selector: digests passed to src.GetTargetManifest, in order
    selOut,         \* selector: what manifestSchema2FromManifestList returned
    store,          \* the API server's image signatures, in creation order
    d_imageStreamImageName, \* destination: d.imageStreamImageName, "" if not yet known
    d_pc,           \* destination: "idle", or "loop" inside PutSignatures' loop
    d_op,           \* destination: the operation called last
    d_result,       \* destination: what the operation called last returned
    signatures,     \* PutSignatures: its argument
    sigIndex,       \* PutSignatures: index of the candidate the loop is at
    image,          \* PutSignatures: image.Signatures as fetched by getImage
    existingSigNames, \* PutSignatures: the set built at lines 385-388
    chosen,         \* PutSignatures: the signatures it has POSTed, with the outcome
    rejected,       \* PutSignatures: the sampled names the inner loop has rejected
    requests,       \* number of doRequest calls of the operation called last
    before,         \* the store and the destination's field when the operation called last began
    prev,           \* summary of the PutSignatures call completed before the last one
    calls,          \* number of operations called on the destination so far
    d_closes,       \* destination: number of Close calls d.docker has received
    d_forwarded,    \* destination: the delegate calls of the operation called last
    digested,       \* destination: the manifest of the last PutManifest whose digest computed
    stream,         \* the API server's status.tags of the image stream
    s_docker,       \* source: s.docker, NoDelegate while it is nil
    s_imageStreamImageName, \* source: s.imageStreamImageName, "" if not known yet
    s_op,           \* source: the operation called last, with its argument
    s_result,       \* source: what the operation called last returned
    s_err,          \* source: what the last call of ensureImageIsResolved returned
    s_fetches,      \* source: stream metadata requests of the operation called last
    is,             \* source: is.Status.Tags as the last operation decoded it, if it did
    te,             \* source: the tag event the last resolution selected
    s_forwarded,    \* source: the delegate calls of the operation called last
    s_imageGets,    \* source: the getImage calls of the operation called last
    s_released,     \* source: the delegate handles passed to Close, in order
    openedFrom,     \* source, serialized use: the resolution and tag event of the delegate opened last
    s_before,       \* source: its fields when the operation called last began
    resolutions,    \* source: number of delegate sources opened so far
    s_calls,        \* number of operations called on the source so far
    c_ref,          \* convertDockerImageReference: its argument
    c_out,          \* convertDockerImageReference: what it returned ("none" before)
    t_pc,           \* concurrent accesses: the line each thread is at
    t_local,        \* concurrent accesses: each thread's te and d of ensureImageIsResolved
    assigned,       \* concurrent accesses: the threads that executed line 283, in order
    nameFrom,       \* concurrent accesses: the delegate number of the resolution line 284 last wrote from
    p_pc,           \* second destination: "idle", "loop" or "done"
    p_args,         \* second destination: its identifier and the candidate it was given
    p_image         \* second destination: image.Signatures as its getImage fetched them

reqVars == <<res, reqOut>>
selVars == <<list, platform, targetCalls, selOut>>
dstVars == <<store, d_imageStreamImageName, d_pc, d_op, d_result, signatures,
             sigIndex, image, existingSigNames, chosen, rejected, requests,
             before, prev, calls, d_closes, d_forwarded, digested>>
srcVars == <<stream, s_docker, s_imageStreamImageName, s_op, s_result, s_err, s_fetches, is, te,
             s_forwarded, s_imageGets, s_released, openedFrom, s_before, resolutions, s_calls>>
convVars == <<c_ref, c_out>>
raceVars == <<t_pc, t_local, assigned, nameFrom>>
peerVars == <<p_pc, p_args, p_image>>
vars == <<reqVars, selVars, dstVars, srcVars, convVars, raceVars, peerVars>>

\* The variables of the parts other than the one a specification runs.
notReq == <<selVars, dstVars, srcVars, convVars, raceVars, peerVars>>
notSel == <<reqVars, dstVars, srcVars, convVars, raceVars, peerVars>>
notDst == <<reqVars, selVars, srcVars, convVars, raceVars, peerVars>>
notSrc == <<reqVars, selVars, dstVars, convVars, raceVars, peerVars>>
notConv == <<reqVars, selVars, dstVars, srcVars, raceVars, peerVars>>
\* the variables the source and its threads do not touch
notRace == <<reqVars, selVars, dstVars, convVars, peerVars>>
\* the destination's variables other than the server's store
dstLocal == <<d_imageStreamImageName, d_pc, d_op, d_result, signatures,
              sigIndex, image, existingSigNames, chosen, rejected, requests,
              before, prev, calls, d_closes, d_forwarded, digested>>

(***************************************************************************)
(* Small helpers on sequences.                                             *)
(***************************************************************************)
Range(s) == {s[i] : i \in 1..Len(s)}

SeqsUpTo(S, n) == UNION {[1..k -> S] : k \in 0..n}

(***************************************************************************)
(* openshiftClient.doRequest, lines 109-129.                               *)
(***************************************************************************)
StatusSwitchingProtocols == 101
StatusOK == 200
StatusPartialContent == 206

Codes == {100, 101, 102, 199, 200, 201, 204, 206, 207, 301, 404, 500}
StatusValues == {"", "Success", "Failure"}
Messages == {"", "not found"}

\* A response body, seen through json.Unmarshal(body, &status): whether the
\* decoding returned an error, and the Status and Message fields it left in
\* the struct (Go fills the fields it could decode even when it reports a
\* type error for another one).  raw is the body's text.
Bodies == [decodeErr : BOOLEAN, Status : StatusValues, Message : Messages]

Responses == [StatusCode : Codes, body : Bodies]

NoResult == [kind |-> "none"]
OkBody(b) == [kind |-> "ok", body |-> b]
ErrMessage(m) == [kind |-> "error", message |-> m]
ErrHTTP(c, b) == [kind |-> "httpError", code |-> c, body |-> b]

\* statusValid without the test of json.Unmarshal's error
statusValid_ignoringDecodeError(body) == body.Status # ""

\* line 111: err == nil && len(status.Status) > 0
statusValid(body) == ~body.decodeErr /\ body.Status # ""

\* lines 115-129: the switch and the final return
doRequest(r) ==
    LET valid == statusValid(r.body)
        status == r.body
    IN  IF r.StatusCode = StatusSwitchingProtocols
        THEN IF valid /\ status.Status # "Success"
             THEN ErrMessage(status.Message)
             ELSE OkBody(r.body)
        ELSE IF r.StatusCode >= StatusOK /\ r.StatusCode <= StatusPartialContent
        THEN OkBody(r.body)
        ELSE IF valid
             THEN ErrMessage(status.Message)
             ELSE ErrHTTP(r.StatusCode, r.body)

ReqInit ==
    /\ res \in Responses
    /\ reqOut = NoResult

DoRequest ==
    /\ reqOut = NoResult
    /\ reqOut' = doRequest(res)
    /\ UNCHANGED res

\* The request variables while another part of the model runs.
ReqIdle ==
    /\ res = [StatusCode |-> 200, body |-> [decodeErr |-> FALSE, Status |-> "", Message |-> ""]]
    /\ reqOut = NoResult

(***************************************************************************)
(* manifestSchema2FromManifestList, part_000 lines 32-52.                  *)
(***************************************************************************)
MaxManifests == 3

Architectures == {"amd64", "arm64"}
OSes == {"linux", "windows"}
Digests == {"", "sha256:a", "sha256:b"}

\* manifestDescriptor, reduced to the fields the function reads
Platforms == [Architecture : Architectures, OS : OSes]

\* manifestDescriptor, reduced to the fields the function reads
Descriptors == [Digest : Digests, Platform : Platforms]

\* manblob after json.Unmarshal(manblob, &list): the error, and list.Manifests
ManifestLists == [decodeErr : BOOLEAN, Manifests : SeqsUpTo(Descriptors, MaxManifests)]

ErrNoPlatform == ErrMessage("no supported platform found in manifest list")
ErrDecode == ErrMessage("json: cannot unmarshal")
ErrSource == ErrMessage("GetTargetManifest failed")

\* the test of line 39 without its second conjunct
platformMatches_architectureOnly(d, p) ==
    d.Platform.Architecture = p.Architecture

\* line 39: the test applied to each descriptor
platformMatches(d, p) ==
    d.Platform.Architecture = p.Architecture /\ d.Platform.OS = p.OS

\* lines 37-43: the loop; targetManifestDigest starts as "" and takes the
\* digest of the first descriptor that matches, after which the loop breaks
RECURSIVE targetDigestFrom(_, _, _)
targetDigestFrom(ms, i, p) ==
    IF i > Len(ms) THEN ""
    ELSE IF platformMatches(ms[i], p) THEN ms[i].Digest
    ELSE targetDigestFrom(ms, i + 1, p)

targetManifestDigest(ms, p) == targetDigestFrom(ms, 1, p)

SelInit ==
    /\ list \in ManifestLists
    /\ platform \in Platforms
    /\ targetCalls = << >>
    /\ selOut = NoResult

\* The selector variables while another part of the model runs.
SelIdle ==
    /\ list = [decodeErr |-> FALSE, Manifests |-> << >>]
    /\ platform = [Architecture |-> "amd64", OS |-> "linux"]
    /\ targetCalls = << >>
    /\ selOut = NoResult

\* lines 33-36: the manifest list does not decode
SelectDecodeError ==
    /\ selOut = NoResult
    /\ list.decodeErr
    /\ selOut' = ErrDecode
    /\ UNCHANGED <<list, platform, targetCalls>>

\* lines 44-46: targetManifestDigest is still ""
SelectNoPlatform ==
    /\ selOut = NoResult
    /\ ~list.decodeErr
    /\ targetManifestDigest(list.Manifests, platform) = ""
    /\ selOut' = ErrNoPlatform
    /\ UNCHANGED <<list, platform, targetCalls>>

\* lines 47-51: src.GetTargetManifest(targetManifestDigest), whose error is
\* returned, and whose result goes to manifestInstanceFromBlob otherwise
SelectFetch ==
    /\ selOut = NoResult
    /\ ~list.decodeErr
    /\ LET digest == targetManifestDigest(list.Manifests, platform)
       IN  /\ digest # ""
           /\ targetCalls' = Append(targetCalls, digest)
           /\ \E srcOK \in BOOLEAN :
                selOut' = IF srcOK THEN OkBody(digest) ELSE ErrSource
    /\ UNCHANGED <<list, platform>>

(***************************************************************************)
(* The image signatures API, as the destination sees it through            *)
(* getImage (lines 133-146) and POST /oapi/v1/imagesignatures (line 422).  *)
(***************************************************************************)
MaxBatch == 2
MaxCalls == 3

ImageIDs == {"sha256:m1", "sha256:m2"}
Contents == {"c1", "c2"}
\* the values rand.Read can fill randBytes with
Suffixes == {"01", "02"}

\* line 468
imageSignatureTypeAtomic == "atomic"
SignatureTypes == {imageSignatureTypeAtomic, "other"}

\* line 406: fmt.Sprintf("%s@%032x", d.imageStreamImageName, randBytes)
SignatureName(id, randBytes) == [image |-> id, hex |-> randBytes]

SignatureNames == {SignatureName(id, r) : id \in ImageIDs, r \in Suffixes}

\* imageSignature (lines 470-481) as stored by the server; creator is
\* bookkeeping: who created the object, this destination or somebody else.
Existing(id, randBytes, type, content) ==
    [Name |-> SignatureName(id, randBytes), Type |-> type, Content |-> content,
     creator |-> "other"]

\* lines 412-420 without the Type of line 418
NewSignature_untyped(name, newSig) ==
    [Name |-> name, Type |-> "", Content |-> newSig, creator |-> "destination"]

\* lines 412-420: the object PutSignatures builds for a candidate
NewSignature(name, newSig) ==
    [Name |-> name, Type |-> imageSignatureTypeAtomic, Content |-> newSig,
     creator |-> "destination"]

NamesOf(sigs) == {sigs[k].Name : k \in 1..Len(sigs)}

\* The signatures the server holds before the destination is used: none, one
\* with a candidate's content (atomic, or of another type), or two.
InitialStores ==
    { << >>,
      <<Existing("sha256:m1", "01", "atomic", "c1")>>,
      <<Existing("sha256:m1", "01", "other", "c1")>>,
      <<Existing("sha256:m1", "01", "atomic", "c1"), Existing("sha256:m1", "02", "other", "c2")>>,
      <<Existing("sha256:m2", "02", "other", "c1"), Existing("sha256:m1", "01", "atomic", "c2")>> }

\* The signatures the server returns inside the image object named id.
SignaturesOf(st, id) == SelectSeq(st, LAMBDA sg : sg.Name.image = id)

\* What the server answers.  objectErr tells whether json.Unmarshal of the
\* body into the requested object (line 142, line 253) returns an error.
RespObject == [StatusCode |-> 200, objectErr |-> FALSE,
               body |-> [decodeErr |-> FALSE, Status |-> "", Message |-> ""]]
RespCreated == [StatusCode |-> 201, objectErr |-> FALSE,
                body |-> [decodeErr |-> FALSE, Status |-> "", Message |-> ""]]
RespGarbage == [StatusCode |-> 200, objectErr |-> TRUE,
                body |-> [decodeErr |-> TRUE, Status |-> "", Message |-> ""]]
RespNotFound == [StatusCode |-> 404, objectErr |-> FALSE,
                 body |-> [decodeErr |-> FALSE, Status |-> "Failure", Message |-> "not found"]]
RespServerError == [StatusCode |-> 500, objectErr |-> TRUE,
                    body |-> [decodeErr |-> TRUE, Status |-> "", Message |-> ""]]

GetResponses == {RespObject, RespGarbage, RespNotFound}

\* The server creates a signature only under a name it does not hold yet.
PostResponses(st, name) ==
    IF name \in NamesOf(st)
    THEN {RespServerError}
    ELSE {RespCreated, RespServerError}

\* lines 133-146
getImage(resp, st, imageStreamImageName) ==
    LET r == doRequest(resp)
    IN  IF r.kind # "ok" THEN r
        ELSE IF resp.objectErr THEN ErrDecode
        ELSE [kind |-> "image", Signatures |-> SignaturesOf(st, imageStreamImageName)]

(***************************************************************************)
(* openshiftImageDestination, lines 288-437.                               *)
(***************************************************************************)
Nil == [kind |-> "nil"]
ErrUnknownDigest == ErrMessage("Internal error: Unknown manifest digest, can't add signatures")
ErrRandom == ErrMessage("Error generating random signature ID")
ErrDigest == ErrMessage("manifest.Digest failed")
ErrDelegate == ErrMessage("docker.PutManifest failed")

ManifestBlobs == {"m1", "m2", "undigestible"}

\* line 361: manifest.Digest(m), a function of the manifest's bytes
manifestDigest(m) ==
    IF m = "undigestible" THEN [err |-> TRUE, digest |-> ""]
    ELSE [err |-> FALSE, digest |-> "sha256:" \o m]

Batches == SeqsUpTo(Contents, MaxBatch)

NoCall == [op |-> "none"]

Snapshot == [store |-> store, imageStreamImageName |-> d_imageStreamImageName]

\* What is remembered of a PutSignatures call when the next one begins.
Summary ==
    [op |-> "PutSignatures", signatures |-> signatures,
     imageStreamImageName |-> d_imageStreamImageName, result |-> d_result,
     contents |-> {store[k].Content : k \in 1..Len(store)},
     postFailed |-> chosen # << >> /\ chosen[Len(chosen)].result.kind # "ok"]

\* the test of line 371 when it never fails
digestKnown_always(imageStreamImageName) == TRUE

\* line 371, negated: d.imageStreamImageName == "" is the failure
digestKnown(imageStreamImageName) == imageStreamImageName # ""

\* the test of line 377 when it never holds
noSignatures_never(sigs) == FALSE

\* line 377: len(signatures) == 0
noSignatures(sigs) == Len(sigs) = 0

\* the test of line 393 when it never holds
sigExists_never(img, newSig) == FALSE

\* the test of line 393 without the comparison of the type
sigExists_anyType(img, newSig) ==
    \E k \in 1..Len(img) : img[k].Content = newSig

\* line 393: the test of the inner loop, over all of image.Signatures
sigExists(img, newSig) ==
    \E k \in 1..Len(img) :
        img[k].Type = imageSignatureTypeAtomic /\ img[k].Content = newSig

\* line 407: the lookup in existingSigNames
nameKnown(names, signatureName) == signatureName \in names

\* lines 385-388
namesOfImage(img) == NamesOf(img)

DstInit ==
    /\ store \in InitialStores
    /\ d_imageStreamImageName = ""
    /\ d_pc = "idle"
    /\ d_op = "none"
    /\ d_result = NoResult
    /\ signatures = << >>
    /\ sigIndex = 1
    /\ image = << >>
    /\ existingSigNames = {}
    /\ chosen = << >>
    /\ rejected = {}
    /\ requests = 0
    /\ before = [store |-> store, imageStreamImageName |-> ""]
    /\ prev = NoCall
    /\ calls = 0
    /\ d_closes = 0
    /\ d_forwarded = << >>
    /\ digested = ""

\* The destination variables while another part of the model runs.
DstUnused ==
    /\ d_imageStreamImageName = ""
    /\ d_pc = "idle"
    /\ d_op = "none"
    /\ d_result = NoResult
    /\ signatures = << >>
    /\ sigIndex = 1
    /\ image = << >>
    /\ existingSigNames = {}
    /\ chosen = << >>
    /\ rejected = {}
    /\ requests = 0
    /\ before = [store |-> << >>, imageStreamImageName |-> ""]
    /\ prev = NoCall
    /\ calls = 0
    /\ d_closes = 0
    /\ d_forwarded = << >>
    /\ digested = ""

DstIdle == store = << >> /\ DstUnused

\* A call of d.docker; closes tells how many Close calls d.docker had
\* received before it.
DelegateCall(method, arg) == [method |-> method, arg |-> arg, closes |-> d_closes]

\* lines 365-367 when the digest is recorded only after the write succeeded
recordedDigest_afterWrite(digest, writeOK, old) == IF writeOK THEN digest ELSE old

\* line 365, which precedes the write of line 367
recordedDigest(digest, writeOK, old) == digest

\* lines 360-368
PutManifest ==
    /\ d_pc = "idle"
    /\ calls < MaxCalls
    /\ calls' = calls + 1
    /\ \E m \in ManifestBlobs, writeOK \in BOOLEAN :
        LET manifestDigestResult == manifestDigest(m)
        IN  IF manifestDigestResult.err
            THEN /\ d_result' = ErrDigest
                 /\ d_forwarded' = << >>
                 /\ UNCHANGED <<d_imageStreamImageName, digested>>
            ELSE /\ d_imageStreamImageName' =
                       recordedDigest(manifestDigestResult.digest, writeOK, d_imageStreamImageName)
                 /\ d_forwarded' = <<DelegateCall("PutManifest", m)>>
                 /\ digested' = m
                 /\ d_result' = IF writeOK THEN Nil ELSE ErrDelegate
    /\ d_op' = "PutManifest"
    /\ requests' = 0
    /\ before' = Snapshot
    /\ prev' = NoCall
    /\ UNCHANGED <<store, d_pc, signatures, sigIndex, image, existingSigNames,
                   chosen, rejected, d_closes>>

\* lines 328-330
DestinationClose ==
    /\ d_pc = "idle"
    /\ calls < MaxCalls
    /\ calls' = calls + 1
    /\ d_op' = "Close"
    /\ d_result' = Nil
    /\ d_forwarded' = <<DelegateCall("Close", "")>>
    /\ d_closes' = d_closes + 1
    /\ requests' = 0
    /\ before' = Snapshot
    /\ prev' = NoCall
    /\ UNCHANGED <<store, d_imageStreamImageName, d_pc, signatures, sigIndex, image,
                   existingSigNames, chosen, rejected, digested>>

\* What every PutSignatures call sets when it begins.
BeginPutSignatures(sigs) ==
    /\ d_pc = "idle"
    /\ calls < MaxCalls
    /\ calls' = calls + 1
    /\ d_op' = "PutSignatures"
    /\ signatures' = sigs
    /\ sigIndex' = 1
    /\ chosen' = << >>
    /\ rejected' = {}
    /\ before' = Snapshot
    /\ prev' = IF d_op = "PutSignatures" THEN Summary ELSE NoCall
    /\ d_forwarded' = << >>
    /\ UNCHANGED <<store, d_imageStreamImageName, d_closes, digested>>

\* lines 371-373
PutSignaturesUnknownDigest ==
    /\ ~digestKnown(d_imageStreamImageName)
    /\ \E sigs \in Batches : BeginPutSignatures(sigs)
    /\ d_result' = ErrUnknownDigest
    /\ requests' = 0
    /\ UNCHANGED <<d_pc, image, existingSigNames>>

\* lines 377-379
PutSignaturesEmpty ==
    /\ digestKnown(d_imageStreamImageName)
    /\ \E sigs \in Batches : noSignatures(sigs) /\ BeginPutSignatures(sigs)
    /\ d_result' = Nil
    /\ requests' = 0
    /\ UNCHANGED <<d_pc, image, existingSigNames>>

\* lines 381-388: getImage, and on success the set of the existing names
PutSignaturesGetImage ==
    /\ digestKnown(d_imageStreamImageName)
    /\ \E sigs \in Batches : ~noSignatures(sigs) /\ BeginPutSignatures(sigs)
    /\ requests' = 1
    /\ \E resp \in GetResponses :
        LET got == getImage(resp, store, d_imageStreamImageName)
        IN  IF got.kind = "image"
            THEN /\ image' = got.Signatures
                 /\ existingSigNames' = namesOfImage(got.Signatures)
                 /\ d_pc' = "loop"
                 /\ d_result' = NoResult
            ELSE /\ d_result' = got
                 /\ image' = << >>
                 /\ existingSigNames' = {}
                 /\ UNCHANGED d_pc

InLoop == d_pc = "loop" /\ sigIndex <= Len(signatures)

loopVars == <<d_imageStreamImageName, d_op, signatures, image, existingSigNames,
              before, prev, calls, d_closes, d_forwarded, digested>>

\* lines 392-396: an existing atomic signature has the candidate's content
PutSigSkip ==
    /\ InLoop
    /\ sigExists(image, signatures[sigIndex])
    /\ sigIndex' = sigIndex + 1
    /\ UNCHANGED <<store, d_pc, d_result, chosen, rejected, requests>>
    /\ UNCHANGED loopVars

\* lines 402-405: rand.Read fails or returns fewer than 16 bytes
PutSigRandError ==
    /\ InLoop
    /\ ~sigExists(image, signatures[sigIndex])
    /\ d_result' = ErrRandom
    /\ d_pc' = "idle"
    /\ UNCHANGED <<store, sigIndex, chosen, rejected, requests>>
    /\ UNCHANGED loopVars

\* lines 400-410, a sample that is in existingSigNames: the loop goes round
PutSigResample ==
    /\ InLoop
    /\ ~sigExists(image, signatures[sigIndex])
    /\ \E randBytes \in Suffixes :
        LET signatureName == SignatureName(d_imageStreamImageName, randBytes)
        IN  /\ nameKnown(existingSigNames, signatureName)
            /\ rejected' = rejected \cup {signatureName}
    /\ UNCHANGED <<store, d_pc, d_result, sigIndex, chosen, requests>>
    /\ UNCHANGED loopVars

\* lines 400-425, a sample that is not in existingSigNames: the loop breaks
\* and the signature is POSTed; an error of the POST is returned
PutSigPost ==
    /\ InLoop
    /\ ~sigExists(image, signatures[sigIndex])
    /\ \E randBytes \in Suffixes :
        LET signatureName == SignatureName(d_imageStreamImageName, randBytes)
            sig == NewSignature(signatureName, signatures[sigIndex])
        IN  /\ ~nameKnown(existingSigNames, signatureName)
            /\ \E resp \in PostResponses(store, signatureName) :
                LET posted == doRequest(resp)
                IN  /\ chosen' = Append(chosen, [sig |-> sig, result |-> posted])
                    /\ IF resp = RespCreated
                       THEN store' = Append(store, sig)
                       ELSE UNCHANGED store
                    /\ IF posted.kind = "ok"
                       THEN /\ sigIndex' = sigIndex + 1
                            /\ UNCHANGED <<d_pc, d_result>>
                       ELSE /\ d_result' = posted
                            /\ d_pc' = "idle"
                            /\ UNCHANGED sigIndex
    /\ requests' = requests + 1
    /\ UNCHANGED rejected
    /\ UNCHANGED loopVars

\* line 428: the loop is over
PutSigReturn ==
    /\ d_pc = "loop"
    /\ sigIndex > Len(signatures)
    /\ d_result' = Nil
    /\ d_pc' = "idle"
    /\ UNCHANGED <<store, sigIndex, chosen, rejected, requests>>
    /\ UNCHANGED loopVars

(***************************************************************************)
(* openshiftImageSource, lines 158-286.                                    *)
(***************************************************************************)
MaxTags == 2
MaxSourceCalls == 4

\* s.client.ref.dockerReference.Tag() and .Hostname(), fixed at construction
RefTag == "latest"
RefHostname == "registry.example.com"

StreamTags == {RefTag, "other"}

\* A docker reference is a sequence of tokens, the token "/" standing for
\* that character; "noslash" has none.
InternalRef(id) == <<"172.30.1.1:5000", "/", "ns", "/", "is@" \o id>>

\* tagEvent, lines 451-454
TagEvent(ref, id) == [DockerImageReference |-> ref, Image |-> id]

\* the values of namedTagEventList.Items
ItemLists ==
    { << >>,
      <<TagEvent(InternalRef("sha256:m1"), "sha256:m1")>>,
      <<TagEvent(InternalRef("sha256:m2"), "sha256:m2"),
        TagEvent(InternalRef("sha256:m1"), "sha256:m1")>>,
      <<TagEvent(<<"noslash">>, "sha256:m2")>> }

\* namedTagEventList, lines 447-450
NamedTagEventLists == [Tag : StreamTags, Items : ItemLists]

\* the values of is.Status.Tags
StreamLists == SeqsUpTo(NamedTagEventLists, MaxTags)

Entry(tag, items) == [Tag |-> tag, Items |-> items]

\* The streams a source is used against over several operations: the tag
\* after another one, the tag without events, an event whose reference has
\* no '/', and a stream without the tag.
SourceStreams ==
    { <<Entry("other", <<TagEvent(InternalRef("sha256:m1"), "sha256:m1")>>),
        Entry(RefTag, <<TagEvent(InternalRef("sha256:m2"), "sha256:m2"),
                        TagEvent(InternalRef("sha256:m1"), "sha256:m1")>>)>>,
      <<Entry(RefTag, << >>),
        Entry(RefTag, <<TagEvent(InternalRef("sha256:m1"), "sha256:m1")>>)>>,
      <<Entry(RefTag, <<TagEvent(<<"noslash">>, "sha256:m2")>>)>>,
      <<Entry("other", <<TagEvent(InternalRef("sha256:m1"), "sha256:m1")>>)>> }

StreamResponses == {RespObject, RespGarbage, RespNotFound}

NoDelegate == [nil |-> TRUE]
NoTagEvent == [nil |-> TRUE]
\* is.Status.Tags, with whether a stream has been decoded at all
NoStream == [decoded |-> FALSE, Tags |-> << >>]
DecodedStream(tags) == [decoded |-> TRUE, Tags |-> tags]

ErrNoMatchingTag == ErrMessage("No matching tag found")
ErrInvalidFormat == ErrMessage("Invalid format of docker reference: missing '/'")
ErrParseReference == ErrMessage("docker.ParseReference failed")
ErrNewImageSource == ErrMessage("NewImageSource failed")
ErrDelegateSource == ErrMessage("delegate source failed")

MaxRefLen == 4

\* the tokens of the references convertDockerImageReference is applied to
RefTokens == {"/", "172.30.1.1:5000", "ns"}
References == SeqsUpTo(RefTokens, MaxRefLen)

Slashes(ref) == {i \in 1..Len(ref) : ref[i] = "/"}

\* strings.SplitN when it cuts at the last '/' instead of the first
splitN2_lastSlash(ref) ==
    IF Slashes(ref) = {} THEN <<ref>>
    ELSE LET i == CHOOSE k \in Slashes(ref) : \A n \in Slashes(ref) : n <= k
         IN  <<SubSeq(ref, 1, i - 1), SubSeq(ref, i + 1, Len(ref))>>

\* line 151: strings.SplitN(ref, "/", 2), which cuts ref at its first '/'
\* and returns ref alone when it has none
splitN2(ref) ==
    IF Slashes(ref) = {} THEN <<ref>>
    ELSE LET i == CHOOSE k \in Slashes(ref) : \A n \in Slashes(ref) : k <= n
         IN  <<SubSeq(ref, 1, i - 1), SubSeq(ref, i + 1, Len(ref))>>

\* lines 150-156
convertDockerImageReference(ref) ==
    LET parts == splitN2(ref)
    IN  IF Len(parts) # 2
        THEN [err |-> ErrInvalidFormat, ref |-> << >>]
        ELSE [err |-> Nil, ref |-> <<RefHostname, "/">> \o parts[2]]

ConvInit == c_ref \in References /\ c_out = NoResult

\* The variables of the reference translation while another part runs.
ConvIdle == c_ref = << >> /\ c_out = NoResult

\* A call of convertDockerImageReference(c_ref).
Convert ==
    /\ c_out = NoResult
    /\ c_out' = convertDockerImageReference(c_ref)
    /\ UNCHANGED c_ref

\* the test of line 258 when it never skips an entry
tagDiffers_never(tag, wanted) == FALSE

\* line 258
tagDiffers(tag, wanted) == tag # wanted

\* lines 256-265: the loop over is.Status.Tags
RECURSIVE findTagEventFrom(_, _, _)
findTagEventFrom(tags, i, wanted) ==
    IF i > Len(tags) THEN NoTagEvent
    ELSE IF tagDiffers(tags[i].Tag, wanted) THEN findTagEventFrom(tags, i + 1, wanted)
    ELSE IF Len(tags[i].Items) > 0 THEN tags[i].Items[1]
    ELSE findTagEventFrom(tags, i + 1, wanted)

findTagEvent(tags) == findTagEventFrom(tags, 1, RefTag)

Failed(err, decoded, event) ==
    [err |-> err, is |-> decoded, te |-> event, docker |-> NoDelegate]

\* lines 245-282: the steps of a resolution, up to the delegate source d.
\* resp and tags are the server's answer, parseOK and openOK the outcomes of
\* docker.ParseReference and dockerRef.NewImageSource.
resolution(resp, tags, parseOK, openOK) ==
    LET body == doRequest(resp)
        event == findTagEvent(tags)
        dockerRefString == convertDockerImageReference(event.DockerImageReference)
    IN  IF body.kind # "ok" THEN Failed(body, NoStream, NoTagEvent)
        ELSE IF resp.objectErr THEN Failed(ErrDecode, NoStream, NoTagEvent)
        ELSE IF event = NoTagEvent THEN Failed(ErrNoMatchingTag, DecodedStream(tags), event)
        ELSE IF dockerRefString.err # Nil
             THEN Failed(dockerRefString.err, DecodedStream(tags), event)
        ELSE IF ~parseOK THEN Failed(ErrParseReference, DecodedStream(tags), event)
        ELSE IF ~openOK THEN Failed(ErrNewImageSource, DecodedStream(tags), event)
        ELSE [err |-> Nil, is |-> DecodedStream(tags), te |-> event,
              docker |-> [n |-> resolutions + 1, ref |-> dockerRefString.ref]]

\* line 279: the resolution a delegate was opened in, with its tag event
OpenedFrom(outcome) == [n |-> outcome.docker.n, te |-> outcome.te]
NotOpened == [n |-> 0, te |-> NoTagEvent]

\* line 284 when an identifier that is already recorded is kept
resolvedFields_identifierKept(outcome, old) ==
    IF outcome.err = Nil
    THEN [docker |-> outcome.docker,
          imageStreamImageName |-> IF old.imageStreamImageName = ""
                                   THEN outcome.te.Image
                                   ELSE old.imageStreamImageName]
    ELSE old

\* the assignments of lines 283-284 when the identifier is recorded as soon
\* as the tag event is found
resolvedFields_identifierFirst(outcome, old) ==
    IF outcome.err = Nil
    THEN [docker |-> outcome.docker, imageStreamImageName |-> outcome.te.Image]
    ELSE IF outcome.te # NoTagEvent
    THEN [docker |-> old.docker, imageStreamImageName |-> outcome.te.Image]
    ELSE old

\* lines 283-284, which no failed step reaches
resolvedFields(outcome, old) ==
    IF outcome.err = Nil
    THEN [docker |-> outcome.docker, imageStreamImageName |-> outcome.te.Image]
    ELSE old

\* the test of line 241 when it never holds
isResolved_never(docker) == FALSE

\* line 241: s.docker != nil
isResolved(docker) == docker # NoDelegate

SourceFields == [docker |-> s_docker, imageStreamImageName |-> s_imageStreamImageName]

\* The fields, and what ensureImageIsResolved returned last.
SourceSnapshot ==
    [docker |-> s_docker, imageStreamImageName |-> s_imageStreamImageName,
     err |-> s_err]

BlobDigests == {"sha256:x", "sha256:y"}

\* GetManifest, GetTargetManifest(digest), GetBlob(digest), GetSignatures
Accesses ==
    {[method |-> "GetManifest", arg |-> ""], [method |-> "GetSignatures", arg |-> ""]}
    \cup [method : {"GetTargetManifest", "GetBlob"}, arg : BlobDigests]

\* lines 230-236 without the test of line 232
atomicContents_allTypes(sigs) == [k \in 1..Len(sigs) |-> sigs[k].Content]

\* lines 230-236
atomicContents(sigs) ==
    LET atomic == SelectSeq(sigs, LAMBDA sg : sg.Type = imageSignatureTypeAtomic)
    IN  [k \in 1..Len(atomic) |-> atomic[k].Content]

FreshSource ==
    /\ s_docker = NoDelegate
    /\ s_imageStreamImageName = ""
    /\ s_op = [method |-> "none", arg |-> ""]
    /\ s_result = NoResult
    /\ s_err = NoResult
    /\ s_fetches = 0
    /\ is = NoStream
    /\ te = NoTagEvent
    /\ s_forwarded = << >>
    /\ s_imageGets = << >>
    /\ s_released = << >>
    /\ openedFrom = NotOpened
    /\ s_before = [docker |-> NoDelegate, imageStreamImageName |-> "", err |-> NoResult]
    /\ resolutions = 0
    /\ s_calls = 0

SrcInit == stream \in SourceStreams /\ FreshSource

\* The source variables while another part of the model runs.
SrcIdle == stream = << >> /\ FreshSource

\* Somebody tags another image, or removes the tag.
StreamChanges ==
    /\ s_calls < MaxSourceCalls
    /\ stream' \in SourceStreams \ {stream}
    /\ UNCHANGED <<s_docker, s_imageStreamImageName, s_op, s_result, s_err, s_fetches, is, te,
                   s_forwarded, s_imageGets, s_released, openedFrom, s_before, resolutions, s_calls>>

\* lines 203, 210 and 218 when the argument is not passed on
forwardedCall_withoutArgument(op, docker) ==
    [method |-> op.method, arg |-> "", docker |-> docker]

\* lines 203, 210 and 218: the call of s.docker the operation ends with
forwardedCall(op, docker) == [method |-> op.method, arg |-> op.arg, docker |-> docker]

\* line 226: a call of s.client.getImage and what it returned
ImageGet(id, resp, got) == [id |-> id, resp |-> resp, image |-> got]

\* What every operation of the source sets when it is called.
BeginSource(op) ==
    /\ s_calls < MaxSourceCalls
    /\ s_calls' = s_calls + 1
    /\ s_op' = op
    /\ s_before' = SourceSnapshot

\* lines 199-237 on a source that is resolved: ensureImageIsResolved returns
\* at line 242 and the call goes on with s.docker
AccessResolved ==
    /\ isResolved(s_docker)
    /\ \E op \in Accesses, callOK \in BOOLEAN, resp \in GetResponses :
        /\ BeginSource(op)
        /\ IF op.method = "GetSignatures"
           THEN LET got == getImage(resp, store, s_imageStreamImageName)
                IN  /\ s_forwarded' = << >>
                    /\ s_imageGets' = <<ImageGet(s_imageStreamImageName, resp, got)>>
                    /\ s_result' = IF got.kind = "image"
                                   THEN [kind |-> "sigs", sigs |-> atomicContents(got.Signatures)]
                                   ELSE got
           ELSE /\ s_forwarded' = <<forwardedCall(op, s_docker)>>
                /\ s_imageGets' = << >>
                /\ s_result' = IF callOK THEN [kind |-> "ok", from |-> s_docker, arg |-> op.arg]
                                         ELSE ErrDelegateSource
    /\ s_err' = Nil
    /\ s_fetches' = 0
    /\ is' = NoStream
    /\ te' = NoTagEvent
    /\ UNCHANGED <<stream, s_docker, s_imageStreamImageName, s_released, openedFrom,
                   resolutions>>

\* lines 199-237 on a source that is not resolved, when a step of
\* ensureImageIsResolved fails: the error is returned
AccessResolutionFails ==
    /\ ~isResolved(s_docker)
    /\ \E op \in Accesses, resp \in StreamResponses,
          parseOK \in BOOLEAN, openOK \in BOOLEAN :
        LET outcome == resolution(resp, stream, parseOK, openOK)
            fields == resolvedFields(outcome, SourceFields)
        IN  /\ outcome.err # Nil
            /\ BeginSource(op)
            /\ s_docker' = fields.docker
            /\ s_imageStreamImageName' = fields.imageStreamImageName
            /\ s_result' = outcome.err
            /\ s_err' = outcome.err
            /\ is' = outcome.is
            /\ te' = outcome.te
    /\ s_fetches' = 1
    /\ s_forwarded' = << >>
    /\ s_imageGets' = << >>
    /\ UNCHANGED <<stream, s_released, openedFrom, resolutions>>

\* lines 199-237 on a source that is not resolved, when ensureImageIsResolved
\* succeeds: lines 283-284, and the call goes on with the new s.docker
AccessResolves ==
    /\ ~isResolved(s_docker)
    /\ \E op \in Accesses, callOK \in BOOLEAN, resp \in GetResponses :
        LET outcome == resolution(RespObject, stream, TRUE, TRUE)
            fields == resolvedFields(outcome, SourceFields)
        IN  /\ outcome.err = Nil
            /\ BeginSource(op)
            /\ s_docker' = fields.docker
            /\ s_imageStreamImageName' = fields.imageStreamImageName
            /\ s_err' = Nil
            /\ is' = outcome.is
            /\ te' = outcome.te
            /\ openedFrom' = OpenedFrom(outcome)
            /\ IF op.method = "GetSignatures"
               THEN LET got == getImage(resp, store, fields.imageStreamImageName)
                    IN  /\ s_forwarded' = << >>
                        /\ s_imageGets' = <<ImageGet(fields.imageStreamImageName, resp, got)>>
                        /\ s_result' = IF got.kind = "image"
                                       THEN [kind |-> "sigs", sigs |-> atomicContents(got.Signatures)]
                                       ELSE got
               ELSE /\ s_forwarded' = <<forwardedCall(op, fields.docker)>>
                    /\ s_imageGets' = << >>
                    /\ s_result' = IF callOK THEN [kind |-> "ok", from |-> fields.docker, arg |-> op.arg]
                                             ELSE ErrDelegateSource
    /\ s_fetches' = 1
    /\ resolutions' = resolutions + 1
    /\ UNCHANGED <<stream, s_released>>

\* the test of line 193 when it never holds
hasDelegate_never(docker) == FALSE

\* the test of line 193 when it always holds
hasDelegate_always(docker) == TRUE

\* line 193: s.docker != nil
hasDelegate(docker) == docker # NoDelegate

\* lines 192-197
SourceClose ==
    /\ BeginSource([method |-> "Close", arg |-> ""])
    /\ IF hasDelegate(s_docker)
       THEN /\ s_released' = Append(s_released, s_docker)
            /\ s_docker' = NoDelegate
       ELSE UNCHANGED <<s_released, s_docker>>
    /\ s_result' = Nil
    /\ s_fetches' = 0
    /\ is' = NoStream
    /\ te' = NoTagEvent
    /\ s_forwarded' = << >>
    /\ s_imageGets' = << >>
    /\ UNCHANGED <<stream, s_imageStreamImageName, s_err, openedFrom, resolutions>>

\* The signatures the server holds when a source reads them: of both
\* images, of both types, and not in the order of their contents.
SignatureStores ==
    { << >>,
      <<Existing("sha256:m2", "02", "atomic", "c2"),
        Existing("sha256:m1", "01", "atomic", "c1"),
        Existing("sha256:m2", "01", "other", "c1"),
        Existing("sha256:m2", "03", "atomic", "c1")>> }

\* the signatures another writer adds while the source is in use
AddedSignatures ==
    {Existing("sha256:m2", "04", "atomic", "c2"), Existing("sha256:m1", "04", "other", "c2")}

\* Another writer POSTs a signature.
SignatureAdded ==
    /\ \E sig \in AddedSignatures :
        /\ sig.Name \notin NamesOf(store)
        /\ store' = Append(store, sig)
    /\ UNCHANGED <<dstLocal, srcVars, reqVars, selVars, convVars, raceVars, peerVars>>

(***************************************************************************)
(* Two first accesses to one source that run concurrently: each thread     *)
(* executes GetManifest, lines 206-211 and 240-286, a line that reads or   *)
(* writes a field of the source at a time.                                 *)
(***************************************************************************)
Threads == {1, 2}

NoOutcome == Failed(NoResult, NoStream, NoTagEvent)

RaceInit ==
    /\ t_pc = [t \in Threads |-> "check"]
    /\ t_local = [t \in Threads |-> NoOutcome]
    /\ assigned = << >>
    /\ nameFrom = 0

\* The threads' variables while another part of the model runs.
RaceIdle ==
    /\ t_pc = [t \in Threads |-> "none"]
    /\ t_local = [t \in Threads |-> NoOutcome]
    /\ assigned = << >>
    /\ nameFrom = 0

\* line 241: the test, on the s.docker of this moment
RaceCheck(t) ==
    /\ t_pc[t] = "check"
    /\ t_pc' = [t_pc EXCEPT ![t] = IF isResolved(s_docker) THEN "call" ELSE "resolve"]
    /\ UNCHANGED <<t_local, assigned, nameFrom, srcVars>>

\* lines 245-282: the request, the choice of te and the opening of d, which
\* use the thread's local variables only
RaceResolve(t) ==
    /\ t_pc[t] = "resolve"
    /\ \E openOK \in BOOLEAN :
        LET outcome == resolution(RespObject, stream, TRUE, openOK)
        IN  /\ t_local' = [t_local EXCEPT ![t] = outcome]
            /\ resolutions' = IF outcome.err = Nil THEN resolutions + 1 ELSE resolutions
            /\ t_pc' = [t_pc EXCEPT ![t] = IF outcome.err = Nil THEN "assignDocker"
                                                                ELSE "failed"]
    /\ UNCHANGED <<assigned, nameFrom>>
    /\ UNCHANGED <<stream, s_docker, s_imageStreamImageName, s_op, s_result, s_err,
                   s_fetches, is, te, s_forwarded, s_imageGets, s_released, openedFrom, s_before,
                   s_calls>>

\* line 283 when it leaves a delegate that is already there
assignedDocker_unlessSet(old, d) == IF old = NoDelegate THEN d ELSE old

\* line 283: s.docker = d
assignedDocker(old, d) == d

RaceAssignDocker(t) ==
    /\ t_pc[t] = "assignDocker"
    /\ s_docker' = assignedDocker(s_docker, t_local[t].docker)
    /\ assigned' = Append(assigned, t)
    /\ t_pc' = [t_pc EXCEPT ![t] = "assignName"]
    /\ UNCHANGED <<t_local, nameFrom>>
    /\ UNCHANGED <<stream, s_imageStreamImageName, s_op, s_result, s_err,
                   s_fetches, is, te, s_forwarded, s_imageGets, s_released, openedFrom, s_before,
                   resolutions, s_calls>>

\* line 284: s.imageStreamImageName = te.Image
RaceAssignName(t) ==
    /\ t_pc[t] = "assignName"
    /\ s_imageStreamImageName' = t_local[t].te.Image
    /\ nameFrom' = t_local[t].docker.n
    /\ t_pc' = [t_pc EXCEPT ![t] = "call"]
    /\ UNCHANGED <<t_local, assigned>>
    /\ UNCHANGED <<stream, s_docker, s_op, s_result, s_err,
                   s_fetches, is, te, s_forwarded, s_imageGets, s_released, openedFrom, s_before,
                   resolutions, s_calls>>

\* line 210: s.docker.GetManifest(), on the s.docker of this moment
RaceCall(t) ==
    /\ t_pc[t] = "call"
    /\ s_forwarded' = Append(s_forwarded,
                             forwardedCall([method |-> "GetManifest", arg |-> ""], s_docker))
    /\ t_pc' = [t_pc EXCEPT ![t] = "done"]
    /\ UNCHANGED <<t_local, assigned, nameFrom>>
    /\ UNCHANGED <<stream, s_docker, s_imageStreamImageName, s_op, s_result, s_err,
                   s_fetches, is, te, s_imageGets, s_released, openedFrom, s_before,
                   resolutions, s_calls>>

\* Close, called once both threads have returned.
RaceClose ==
    /\ \A t \in Threads : t_pc[t] \in {"done", "failed"}
    /\ SourceClose
    /\ UNCHANGED raceVars

(***************************************************************************)
(* A second destination, of another process, that runs PutSignatures       *)
(* (lines 381-425) with one candidate against the same server.             *)
(***************************************************************************)
PeerIdle ==
    /\ p_pc = "idle"
    /\ p_args = [id |-> "", content |-> ""]
    /\ p_image = << >>

\* the signatures the server holds before the two destinations write
SharedStores == {<< >>, <<Existing("sha256:m1", "01", "other", "c1")>>}

\* lines 412-420, in the second destination
PeerSignature(name, newSig) == [NewSignature(name, newSig) EXCEPT !.creator = "peer"]

\* lines 381-388 in the second destination
PeerGetImage ==
    /\ p_pc = "idle"
    /\ \E id \in ImageIDs, newSig \in Contents :
        LET got == getImage(RespObject, store, id)
        IN  /\ p_args' = [id |-> id, content |-> newSig]
            /\ p_image' = got.Signatures
    /\ p_pc' = "loop"
    /\ UNCHANGED <<dstVars, reqVars, selVars, srcVars, convVars, raceVars>>

\* lines 391-425 in the second destination, for its one candidate
PeerPost ==
    /\ p_pc = "loop"
    /\ IF sigExists(p_image, p_args.content)
       THEN UNCHANGED store
       ELSE \E randBytes \in Suffixes :
              LET signatureName == SignatureName(p_args.id, randBytes)
              IN  /\ ~nameKnown(namesOfImage(p_image), signatureName)
                  /\ \E resp \in PostResponses(store, signatureName) :
                        store' = IF resp = RespCreated
                                 THEN Append(store, PeerSignature(signatureName, p_args.content))
                                 ELSE store
    /\ p_pc' = "done"
    /\ UNCHANGED <<p_args, p_image>>
    /\ UNCHANGED <<dstLocal, reqVars, selVars, srcVars, convVars, raceVars>>

InitRequest == ReqInit /\ SelIdle /\ DstIdle /\ SrcIdle /\ ConvIdle /\ RaceIdle /\ PeerIdle
NextRequest == DoRequest /\ UNCHANGED notReq
SpecRequest == InitRequest /\ [][NextRequest]_vars

InitSelect == SelInit /\ ReqIdle /\ DstIdle /\ SrcIdle /\ ConvIdle /\ RaceIdle /\ PeerIdle
NextSelect ==
    \/ SelectDecodeError /\ UNCHANGED notSel
    \/ SelectNoPlatform /\ UNCHANGED notSel
    \/ SelectFetch /\ UNCHANGED notSel
SpecSelect == InitSelect /\ [][NextSelect]_vars

InitDestination == DstInit /\ ReqIdle /\ SelIdle /\ SrcIdle /\ ConvIdle /\ RaceIdle /\ PeerIdle
NextDestination ==
    \/ PutManifest /\ UNCHANGED notDst
    \/ PutSignaturesUnknownDigest /\ UNCHANGED notDst
    \/ PutSignaturesEmpty /\ UNCHANGED notDst
    \/ PutSignaturesGetImage /\ UNCHANGED notDst
    \/ PutSigSkip /\ UNCHANGED notDst
    \/ PutSigRandError /\ UNCHANGED notDst
    \/ PutSigResample /\ UNCHANGED notDst
    \/ PutSigPost /\ UNCHANGED notDst
    \/ PutSigReturn /\ UNCHANGED notDst
SpecDestination == InitDestination /\ [][NextDestination]_vars

\* The destination with its Close, against a server without signatures.
InitDestinationClose == DstIdle /\ ReqIdle /\ SelIdle /\ SrcIdle /\ ConvIdle /\ RaceIdle /\ PeerIdle
NextDestinationClose ==
    \/ NextDestination
    \/ DestinationClose /\ UNCHANGED notDst
SpecDestinationClose == InitDestinationClose /\ [][NextDestinationClose]_vars

\* The reference translation, applied to every reference.
InitConvert == ConvInit /\ ReqIdle /\ SelIdle /\ DstIdle /\ SrcIdle /\ RaceIdle /\ PeerIdle
NextConvert == Convert /\ UNCHANGED notConv
SpecConvert == InitConvert /\ [][NextConvert]_vars

\* The source under serialized use, against a stream that changes.
InitSource == SrcInit /\ DstIdle /\ ReqIdle /\ SelIdle /\ ConvIdle /\ RaceIdle /\ PeerIdle
NextSource ==
    \/ StreamChanges /\ UNCHANGED notSrc
    \/ AccessResolved /\ UNCHANGED notSrc
    \/ AccessResolutionFails /\ UNCHANGED notSrc
    \/ AccessResolves /\ UNCHANGED notSrc
    \/ SourceClose /\ UNCHANGED notSrc
SpecSource == InitSource /\ [][NextSource]_vars

\* The source under serialized use, against signatures that change.
InitSignatures ==
    /\ stream \in {tags \in SourceStreams : findTagEvent(tags) # NoTagEvent}
    /\ FreshSource
    /\ store \in SignatureStores
    /\ DstUnused /\ ReqIdle /\ SelIdle /\ ConvIdle /\ RaceIdle /\ PeerIdle
NextSignatures ==
    \/ SignatureAdded
    \/ AccessResolved /\ UNCHANGED notSrc
    \/ AccessResolutionFails /\ UNCHANGED notSrc
    \/ AccessResolves /\ UNCHANGED notSrc
    \/ SourceClose /\ UNCHANGED notSrc
SpecSignatures == InitSignatures /\ [][NextSignatures]_vars

\* Two destinations that write signatures to one server: this one with
\* PutManifest and then PutSignatures, the second one with its PutSignatures
\* at any moment.
InitWriters ==
    /\ store \in SharedStores
    /\ DstUnused /\ PeerIdle /\ ReqIdle /\ SelIdle /\ SrcIdle /\ ConvIdle /\ RaceIdle
NextWriters ==
    \/ calls = 0 /\ PutManifest /\ UNCHANGED notDst
    \/ calls = 1 /\ PutSignaturesGetImage /\ UNCHANGED notDst
    \/ PutSigSkip /\ UNCHANGED notDst
    \/ PutSigRandError /\ UNCHANGED notDst
    \/ PutSigResample /\ UNCHANGED notDst
    \/ PutSigPost /\ UNCHANGED notDst
    \/ PutSigReturn /\ UNCHANGED notDst
    \/ PeerGetImage
    \/ PeerPost
SpecWriters == InitWriters /\ [][NextWriters]_vars

\* Two threads in their first access to one source, against a stream that
\* changes, and Close after both have returned.
InitRace == SrcInit /\ RaceInit /\ DstIdle /\ ReqIdle /\ SelIdle /\ ConvIdle /\ PeerIdle
NextRace ==
    \/ StreamChanges /\ UNCHANGED notSrc
    \/ \E t \in Threads : RaceCheck(t) /\ UNCHANGED notRace
    \/ \E t \in Threads : RaceResolve(t) /\ UNCHANGED notRace
    \/ \E t \in Threads : RaceAssignDocker(t) /\ UNCHANGED notRace
    \/ \E t \in Threads : RaceAssignName(t) /\ UNCHANGED notRace
    \/ \E t \in Threads : RaceCall(t) /\ UNCHANGED notRace
    \/ RaceClose /\ UNCHANGED notRace
SpecRace == InitRace /\ [][NextRace]_vars

\* The first access to a new source, against every stream.
InitResolve ==
    stream \in StreamLists /\ FreshSource /\ DstIdle /\ ReqIdle /\ SelIdle /\ ConvIdle /\ RaceIdle /\ PeerIdle
NextResolve ==
    \/ s_calls = 0 /\ AccessResolutionFails /\ UNCHANGED notSrc
    \/ s_calls = 0 /\ AccessResolves /\ UNCHANGED notSrc
SpecResolve == InitResolve /\ [][NextResolve]_vars

(***************************************************************************)
(* Properties of doRequest.                                                *)
(***************************************************************************)
SuccessCodes == {101} \cup (200..206)

\* C8: doRequest's outcome as a function of the HTTP code, of whether the
\* body decoded to a status envelope with a non-empty status, and of that
\* status: 101 with a decoded status other than "Success" is an error with
\* the status message; 101 otherwise and every code in 200..206 return the
\* body; any other code is an error with the status message when an envelope
\* decoded, else a generic error with the code and the body.  A body that
\* does not decode never fails the call by itself.
C8_Classification ==
    reqOut # NoResult =>
        LET code == res.StatusCode
            decoded == ~res.body.decodeErr /\ res.body.Status # ""
            failure == decoded /\ res.body.Status # "Success"
        IN  /\ (code = 101 /\ failure) => reqOut = ErrMessage(res.body.Message)
            /\ (code = 101 /\ ~failure) => reqOut = OkBody(res.body)
            /\ (code \in 200..206) => reqOut = OkBody(res.body)
            /\ (code \notin SuccessCodes /\ decoded)
                   => reqOut = ErrMessage(res.body.Message)
            /\ (code \notin SuccessCodes /\ ~decoded)
                   => reqOut = ErrHTTP(code, res.body)
            /\ (res.body.decodeErr /\ code \in SuccessCodes) => reqOut.kind = "ok"

\* A 101 response whose body is a Failure status with a message.
C8_Witness ==
    /\ res.StatusCode = 101
    /\ res.body = [decodeErr |-> FALSE, Status |-> "Failure", Message |-> "not found"]
    /\ reqOut = ErrMessage("not found")

(***************************************************************************)
(* Properties of the manifest list selector.                               *)
(***************************************************************************)
Matching == {k \in 1..Len(list.Manifests) : 
                /\ list.Manifests[k].Platform.Architecture = platform.Architecture
                /\ list.Manifests[k].Platform.OS = platform.OS}

FirstMatching == CHOOSE k \in Matching : \A n \in Matching : k <= n

Selected == selOut # NoResult /\ ~list.decodeErr

\* C9 as stated: with at least one matching descriptor GetTargetManifest is
\* called exactly once, with the digest of the first of them; with none the
\* selection fails with "no supported platform found" and calls nothing.
C9_FirstMatch ==
    Selected =>
        IF Matching # {}
        THEN targetCalls = <<list.Manifests[FirstMatching].Digest>>
        ELSE selOut = ErrNoPlatform /\ targetCalls = << >>

\* C9, amended: the call is made when the first matching descriptor has a
\* non-empty digest; with no matching descriptor, or with an empty digest in
\* the first matching one, the selection fails with "no supported platform
\* found" and calls nothing.
C9_FirstMatchWithDigest ==
    Selected =>
        IF Matching # {} /\ list.Manifests[FirstMatching].Digest # ""
        THEN targetCalls = <<list.Manifests[FirstMatching].Digest>>
        ELSE selOut = ErrNoPlatform /\ targetCalls = << >>

\* Two descriptors match, after one that does not; the digests differ.
C9_Witness ==
    /\ Selected
    /\ Len(list.Manifests) = 3
    /\ Matching = {2, 3}
    /\ list.Manifests[1].Platform.Architecture = platform.Architecture
    /\ list.Manifests[2].Digest = "sha256:b"
    /\ list.Manifests[3].Digest = "sha256:a"
    /\ targetCalls = <<"sha256:b">>

(***************************************************************************)
(* Properties of the source.                                               *)
(***************************************************************************)
AccessMethods == {"GetManifest", "GetTargetManifest", "GetBlob", "GetSignatures"}

\* Whether the operation called last has opened a delegate source.
ResolvedNow == s_before.docker = NoDelegate /\ s_docker # NoDelegate

\* C3 as stated: once a resolution has succeeded the source is never
\* unresolved again, and no later operation fetches the stream metadata.
C3_Terminal ==
    /\ resolutions > 0 => s_docker # NoDelegate
    /\ s_fetches > 0 => resolutions = (IF ResolvedNow THEN 1 ELSE 0)

\* C3, amended: a resolved source stays resolved, with the same delegate and
\* without a fetch of the stream metadata, through every operation but
\* Close; Close leaves the source unresolved, every delegate opened before
\* having been passed to Close; and an access to an unresolved source
\* fetches the stream metadata again.
C3_ResolvedUntilClose ==
    /\ (s_before.docker # NoDelegate /\ s_op.method \in AccessMethods)
       => /\ s_docker = s_before.docker
          /\ s_imageStreamImageName = s_before.imageStreamImageName
          /\ s_fetches = 0
    /\ s_op.method = "Close" => (s_docker = NoDelegate /\ s_fetches = 0)
    /\ s_docker = NoDelegate => Len(s_released) = resolutions
    /\ s_docker # NoDelegate => Len(s_released) = resolutions - 1
    /\ (s_before.docker = NoDelegate /\ s_op.method \in AccessMethods) => s_fetches = 1

\* A source resolved, closed, and resolved again by the next access.
C3_Witness ==
    /\ s_op.method \in AccessMethods
    /\ s_before.docker = NoDelegate
    /\ s_before.imageStreamImageName # ""
    /\ s_fetches = 1
    /\ resolutions = 2
    /\ s_docker # NoDelegate
    /\ Len(s_released) = 1

ResolutionFailed(err) == err \notin {Nil, NoResult}

\* C4: a resolution that fails leaves the delegate absent and the recorded
\* identifier as it was, returns its error to the caller after one fetch of
\* the stream metadata, and opens nothing; the access that follows a failed
\* resolution fetches the stream metadata again.
C4_FailedResolution ==
    /\ (ResolutionFailed(s_err) /\ s_op.method \in AccessMethods)
       => /\ s_before.docker = NoDelegate
          /\ s_docker = NoDelegate
          /\ s_imageStreamImageName = s_before.imageStreamImageName
          /\ s_result = s_err
          /\ s_fetches = 1
          /\ s_forwarded = << >>
          /\ Len(s_released) = resolutions
    /\ (ResolutionFailed(s_before.err) /\ s_op.method \in AccessMethods)
       => s_fetches = 1

\* A resolution that fails after it has found a tag event of another image
\* than the recorded one, the resolution before it having failed too.
C4_Witness ==
    /\ s_op.method \in AccessMethods
    /\ ResolutionFailed(s_err)
    /\ ResolutionFailed(s_before.err)
    /\ s_fetches = 1
    /\ s_imageStreamImageName # ""
    /\ te # NoTagEvent
    /\ te.Image # s_imageStreamImageName

MatchingEntries == {k \in 1..Len(stream) : stream[k].Tag = RefTag}

UsableEntries == {k \in MatchingEntries : stream[k].Items # << >>}

First(S) == CHOOSE k \in S : \A n \in S : k <= n

\* The first access has decoded the stream.
Decoded == s_calls = 1 /\ is.decoded /\ is.Tags = stream

NoMatchingTag ==
    /\ s_err = ErrNoMatchingTag
    /\ s_result = ErrNoMatchingTag
    /\ te = NoTagEvent
    /\ s_docker = NoDelegate
    /\ resolutions = 0

\* What follows the choice of event e: the delegate is opened against the
\* translation of its reference, and its image is recorded.
Selects(e) ==
    /\ te = e
    /\ s_err = Nil
       => /\ s_docker # NoDelegate
          /\ s_docker.ref = <<RefHostname>> \o Tail(e.DockerImageReference)
          /\ s_imageStreamImageName = e.Image

\* C5 as stated: resolution selects items[0] of the entry whose tag is the
\* reference's; with empty items in that entry, or without such an entry, it
\* fails with "No matching tag found" and opens no delegate.
C5_MatchingEntry ==
    Decoded =>
        IF MatchingEntries # {} /\ stream[First(MatchingEntries)].Items # << >>
        THEN Selects(stream[First(MatchingEntries)].Items[1])
        ELSE NoMatchingTag

\* C5, amended: resolution selects items[0] of the first entry whose tag is
\* the reference's and whose items are not empty; without such an entry it
\* fails with "No matching tag found" and opens no delegate.
C5_FirstUsableEntry ==
    Decoded =>
        IF UsableEntries # {}
        THEN Selects(stream[First(UsableEntries)].Items[1])
        ELSE NoMatchingTag

\* The tag comes second, after another tag, and has two events.
C5_Witness ==
    /\ Decoded
    /\ Len(stream) = 2
    /\ stream[1].Tag # RefTag
    /\ stream[1].Items # << >>
    /\ stream[2].Tag = RefTag
    /\ Len(stream[2].Items) = 2
    /\ s_docker # NoDelegate
    /\ s_imageStreamImageName = stream[2].Items[1].Image
    /\ s_imageStreamImageName # stream[1].Items[1].Image

\* C13: the reference translation is a function of its argument and the
\* registry hostname of the user's reference: for an argument with a '/' the
\* result is the hostname, a '/', and everything after the argument's first
\* '/' (so the part before it is dropped and the later '/' are kept); for an
\* argument without '/' it fails; and the call makes no request and changes
\* no state.
C13_Translation ==
    /\ [](c_out # NoResult =>
            IF \E i \in 1..Len(c_ref) : c_ref[i] = "/"
            THEN /\ c_out.err = Nil
                 /\ \E i \in 1..Len(c_ref) :
                      /\ c_ref[i] = "/"
                      /\ \A j \in 1..(i - 1) : c_ref[j] # "/"
                      /\ Len(c_out.ref) = 2 + Len(c_ref) - i
                      /\ c_out.ref[1] = RefHostname
                      /\ c_out.ref[2] = "/"
                      /\ \A j \in (i + 1)..Len(c_ref) : c_out.ref[j - i + 2] = c_ref[j]
            ELSE c_out.err = ErrInvalidFormat)
    /\ [][c_out' # c_out => UNCHANGED <<c_ref, notConv>>]_vars

\* A reference with a part before its first '/' and a second '/' has been
\* translated.
C13_Witness ==
    /\ c_out # NoResult
    /\ Len(c_ref) = 4
    /\ c_ref[1] # "/"
    /\ c_ref[2] = "/"
    /\ c_ref[4] = "/"
    /\ c_out.ref = <<RefHostname, "/", c_ref[3], "/">>

\* A step that is a call of Close on the source.
ClosesSource == s_calls' = s_calls + 1 /\ s_op'.method = "Close"

NoHandleTwice(released) ==
    \A i, j \in 1..Len(released) : released[i] = released[j] => i = j

\* C11: Close of the source is safe in every state and any number of times:
\* on a source without a delegate (never resolved, or closed already) it
\* releases nothing, on a resolved source it releases the delegate and
\* forgets it, and no delegate handle is ever released twice.
C11_CloseSafe ==
    [][ClosesSource =>
          /\ s_docker' = NoDelegate
          /\ s_released' = IF s_docker = NoDelegate
                           THEN s_released
                           ELSE Append(s_released, s_docker)
          /\ NoDelegate \notin Range(s_released')
          /\ NoHandleTwice(s_released')]_vars

\* Close, twice in a row, of a source that had resolved: the second call
\* found no delegate, and the one handle is released once.
C11_Witness ==
    /\ s_op.method = "Close"
    /\ s_before.docker = NoDelegate
    /\ resolutions = 1
    /\ Len(s_released) = 1

\* The delegate sources opened so far and not released, by their numbers.
OpenHandles ==
    (1..resolutions) \ {s_released[k].n : k \in 1..Len(s_released)}

\* C20: under serialized use at most one delegate source is open at any
\* time, and it is the one in s.docker; after a Close none is open, so
\* every delegate opened is released by the next Close; and no access is
\* passed on to a delegate that has been released.
C20_OneOpenHandle ==
    /\ Cardinality(OpenHandles) <= 1
    /\ OpenHandles = IF s_docker = NoDelegate THEN {} ELSE {s_docker.n}
    /\ NoDelegate \notin Range(s_released)
    /\ (s_op.method = "Close" => OpenHandles = {})
    /\ \A k \in 1..Len(s_forwarded) :
          /\ s_forwarded[k].docker # NoDelegate
          /\ s_forwarded[k].docker.n \in OpenHandles

\* A source resolved, was closed, and resolved again for an access that
\* went to the second delegate.
C20_Witness ==
    /\ resolutions = 2
    /\ Len(s_released) = 1
    /\ s_docker # NoDelegate
    /\ s_docker.n = 2
    /\ Len(s_forwarded) = 1
    /\ s_forwarded[1].docker = s_docker

\* Both threads have passed line 241 on the unresolved source, opened a
\* delegate and executed line 283.
BothAssigned == Len(assigned) = 2

FirstAssigned == t_local[assigned[1]].docker
LastAssigned == t_local[assigned[2]].docker

\* C18: two first accesses that run concurrently on an unresolved source
\* can both open a delegate; then s.docker holds the handle assigned last,
\* the handle assigned first is overwritten and Close, which releases what
\* s.docker holds, never releases it; and the content identifier is the
\* image of the tag event of whichever thread executed line 284 last, which
\* need not be the thread whose delegate s.docker holds.
C18_RaceLosesHandle ==
    /\ Len(s_released) <= 1
    /\ (BothAssigned =>
          /\ resolutions = 2
          /\ FirstAssigned # LastAssigned
          /\ (s_released = << >> => s_docker = LastAssigned)
          /\ FirstAssigned \notin Range(s_released)
          /\ (s_op.method = "Close" =>
                /\ s_released = <<LastAssigned>>
                /\ OpenHandles = {FirstAssigned.n}))
    /\ (s_imageStreamImageName # "" =>
          \E t \in Threads :
              /\ t_local[t].docker # NoDelegate
              /\ nameFrom = t_local[t].docker.n
              /\ s_imageStreamImageName = t_local[t].te.Image)

\* Both threads resolved, against a stream that changed between their
\* requests; Close has released the handle assigned last, the other one is
\* still open, and the identifier is the image of the other thread's tag
\* event.
C18_Witness ==
    /\ BothAssigned
    /\ s_op.method = "Close"
    /\ s_released = <<LastAssigned>>
    /\ OpenHandles = {FirstAssigned.n}
    /\ nameFrom = FirstAssigned.n
    /\ t_local[1].te # t_local[2].te
    /\ s_imageStreamImageName # t_local[assigned[2]].te.Image

\* What the reference of a tag event is translated to.
TranslatedReference(event) ==
    convertDockerImageReference(event.DockerImageReference).ref

PassThroughMethods == {"GetManifest", "GetTargetManifest", "GetBlob"}

\* C17: on a resolved source GetManifest, GetTargetManifest and GetBlob
\* only pass the call on: no request for the stream's metadata and none for
\* the image, one call of the delegate opened at resolution with the
\* operation's argument, the delegate's value or error as the result, and
\* the delegate handle and the content identifier as they were, also when
\* the delegate failed.
C17_PassThrough ==
    (s_op.method \in PassThroughMethods /\ s_before.docker # NoDelegate) =>
        /\ s_fetches = 0
        /\ s_imageGets = << >>
        /\ s_forwarded = <<[method |-> s_op.method, arg |-> s_op.arg,
                            docker |-> s_before.docker]>>
        /\ s_before.docker.n = resolutions
        /\ s_result \in {[kind |-> "ok", from |-> s_before.docker, arg |-> s_op.arg],
                         ErrDelegateSource}
        /\ s_docker = s_before.docker
        /\ s_imageStreamImageName = s_before.imageStreamImageName

\* GetBlob on a resolved source has failed in the delegate.
C17_Witness ==
    /\ s_op = [method |-> "GetBlob", arg |-> "sha256:y"]
    /\ s_before.docker # NoDelegate
    /\ s_result = ErrDelegateSource
    /\ s_docker = s_before.docker

\* The contents of the signatures of type "atomic", in their order.
RECURSIVE AtomicInOrder(_)
AtomicInOrder(sigs) ==
    IF sigs = << >> THEN << >>
    ELSE (IF Head(sigs).Type = "atomic" THEN <<Head(sigs).Content>> ELSE << >>)
         \o AtomicInOrder(Tail(sigs))

\* A GetSignatures call whose resolution step succeeded has returned.
GotSignatures == s_op.method = "GetSignatures" /\ s_err = Nil

\* C14: every GetSignatures call on a resolved source makes one getImage
\* request, for the resolved content identifier, and the server answers it
\* from the signatures it holds at that moment; the call returns the
\* contents of the "atomic" signatures of the answer in the answer's order,
\* and signatures of another type are left out without an error.
C14_FreshAtomic ==
    /\ [](GotSignatures =>
            /\ Len(s_imageGets) = 1
            /\ s_imageGets[1].id = s_imageStreamImageName
            /\ IF s_imageGets[1].image.kind = "image"
               THEN s_result = [kind |-> "sigs",
                                sigs |-> AtomicInOrder(s_imageGets[1].image.Signatures)]
               ELSE s_result = s_imageGets[1].image)
    /\ [][(s_calls' = s_calls + 1 /\ GotSignatures' /\ s_imageGets'[1].resp = RespObject) =>
            /\ s_imageGets'[1].image.kind = "image"
            /\ s_imageGets'[1].image.Signatures =
                   SelectSeq(store, LAMBDA sg : sg.Name.image = s_imageStreamImageName')]_vars

\* GetSignatures on a source that was resolved before the call, after
\* another writer added a signature: three atomic contents in the order
\* of the answer, which also held a signature of another type.
C14_Witness ==
    /\ GotSignatures
    /\ s_before.docker # NoDelegate
    /\ s_fetches = 0
    /\ s_result = [kind |-> "sigs", sigs |-> <<"c2", "c1", "c2">>]
    /\ \E k \in 1..Len(s_imageGets[1].image.Signatures) :
          s_imageGets[1].image.Signatures[k].Type = "other"

(***************************************************************************)
(* Properties of the destination.                                          *)
(***************************************************************************)
\* The identifier PutManifest is to record for the manifest m.
DigestOf(m) == IF m = "" THEN "" ELSE "sha256:" \o m

\* C15: PutManifest records the digest of its manifest before it hands the
\* manifest to the delegate.  After a PutManifest whose delegate write
\* failed the identifier is that manifest's digest, and a PutSignatures
\* called next does not fail with the unknown-digest error; after a
\* PutManifest whose digest computation failed the identifier is what it
\* was and the delegate was not called; and a PutSignatures call reads (when
\* it reads at all) and names signatures under the digest of the last
\* manifest whose digest computed.
C15_DigestRecordedFirst ==
    /\ []((d_op = "PutManifest" /\ d_result \in {Nil, ErrDelegate}) =>
            /\ Len(d_forwarded) = 1
            /\ d_forwarded[1].method = "PutManifest"
            /\ d_imageStreamImageName = DigestOf(d_forwarded[1].arg)
            /\ d_imageStreamImageName # "")
    /\ []((d_op = "PutManifest" /\ d_result = ErrDigest) =>
            /\ d_imageStreamImageName = before.imageStreamImageName
            /\ d_forwarded = << >>)
    /\ [](d_op = "PutSignatures" =>
            /\ (d_result = ErrUnknownDigest) = (digested = "")
            /\ \A k \in 1..Len(chosen) : chosen[k].sig.Name.image = DigestOf(digested)
            /\ (requests > 0 =>
                  \A k \in 1..Len(image) : image[k].Name.image = DigestOf(digested)))
    /\ [][(d_op = "PutManifest" /\ d_result = ErrDelegate
            /\ calls' = calls + 1 /\ d_op' = "PutSignatures") =>
              d_result' # ErrUnknownDigest]_vars

\* PutManifest(m1) has failed in the delegate's write, after the digest of
\* another manifest had been recorded: the identifier is the digest of m1.
C15_Witness ==
    /\ d_op = "PutManifest"
    /\ d_result = ErrDelegate
    /\ before.imageStreamImageName = "sha256:m2"
    /\ d_imageStreamImageName = "sha256:m1"
    /\ calls < MaxCalls

\* C12: Close of the destination is safe to call several times: the
\* delegate opened at construction is released exactly once (its Close is
\* called at most once, by the first Close), and no call reaches the
\* delegate after it has been released.
C12_CloseOnce ==
    /\ d_closes <= 1
    /\ (d_op = "Close" => d_closes = 1)
    /\ \A k \in 1..Len(d_forwarded) : d_forwarded[k].closes = 0

AtomicContents(sigs) ==
    {sigs[k].Content : k \in {n \in 1..Len(sigs) : sigs[n].Type = "atomic"}}

ContentsOf(sigs) == {sigs[k].Content : k \in 1..Len(sigs)}

CreatedSignatures ==
    SelectSeq(chosen, LAMBDA ch : ch.result.kind = "ok")

PostFailed == chosen # << >> /\ chosen[Len(chosen)].result.kind # "ok"

PutSignaturesDone == d_op = "PutSignatures" /\ d_pc = "idle"

\* The signatures of image id that this destination has created and that
\* carry content c.
CreatedWith(id, c) ==
    {k \in 1..Len(store) :
        /\ store[k].creator = "destination"
        /\ store[k].Name.image = id
        /\ store[k].Type = "atomic"
        /\ store[k].Content = c}

\* C1, first half: two successful PutSignatures calls in a row with the same
\* batch leave the same set of stored contents as the first of them.
C1_SameContents ==
    ( /\ PutSignaturesDone
      /\ d_result = Nil
      /\ d_imageStreamImageName # ""
      /\ prev.op = "PutSignatures"
      /\ prev.result = Nil
      /\ prev.signatures = signatures
      /\ prev.imageStreamImageName = d_imageStreamImageName )
    => ContentsOf(store) = prev.contents

\* C1, second half: after a successful PutSignatures(S), no content of S is
\* stored under more than one atomic signature created by this destination.
C1_NoDuplicate ==
    (PutSignaturesDone /\ d_result = Nil /\ d_imageStreamImageName # "")
    => \A c \in Range(signatures) :
           Cardinality(CreatedWith(d_imageStreamImageName, c)) <= 1

\* C1: signature merge is idempotent: running PutSignatures(S) to successful
\* completion twice in a row leaves the same stored contents as running it
\* once, and after either run no content of S is stored under more than one
\* atomic signature this destination created.
C1_Idempotent == C1_SameContents /\ C1_NoDuplicate

\* C2: within one PutSignatures call every name chosen for a POSTed signature
\* differs from every name present on the fetched image and from every name
\* chosen earlier in the same call.
C2_UniqueNames ==
    d_op = "PutSignatures" =>
        \A k \in 1..Len(chosen) :
            /\ chosen[k].sig.Name \notin NamesOf(image)
            /\ \A j \in 1..(k - 1) : chosen[j].sig.Name # chosen[k].sig.Name

\* C6: PutSignatures on a destination with no recorded content identifier
\* fails with the unknown-identifier error whatever its argument, issues no
\* request and leaves the destination and the store as they were.
C6_UnknownDigest ==
    (d_op = "PutSignatures" /\ before.imageStreamImageName = "")
    => /\ d_pc = "idle"
       /\ d_result = ErrUnknownDigest
       /\ requests = 0
       /\ chosen = << >>
       /\ store = before.store
       /\ d_imageStreamImageName = before.imageStreamImageName

C6_Witness ==
    /\ d_op = "PutSignatures"
    /\ before.imageStreamImageName = ""
    /\ Len(signatures) = MaxBatch
    /\ store # << >>
    /\ d_result = ErrUnknownDigest

\* C7: PutSignatures with an empty list issues no request in any destination
\* state, and with a recorded content identifier it returns nil and leaves
\* the store and the destination as they were.
C7_EmptyList ==
    (d_op = "PutSignatures" /\ signatures = << >>)
    => /\ d_pc = "idle"
       /\ requests = 0
       /\ chosen = << >>
       /\ store = before.store
       /\ d_imageStreamImageName = before.imageStreamImageName
       /\ (before.imageStreamImageName # "" => d_result = Nil)

C7_Witness ==
    /\ d_op = "PutSignatures"
    /\ signatures = << >>
    /\ before.imageStreamImageName # ""
    /\ store # << >>
    /\ d_result = Nil

\* The candidates among the first n of the batch that no atomic signature of
\* the fetched image carries.
Surviving(n) ==
    SelectSeq(SubSeq(signatures, 1, n), LAMBDA c : c \notin AtomicContents(image))

\* C10: a POST that fails ends the call with that error and is the call's
\* last request; nothing is undone, so the store holds what it held before
\* plus the surviving candidates that precede the failing one, in input
\* order; and a re-run with the same batch POSTs only contents not stored.
C10_PartialFailure ==
    d_op = "PutSignatures" =>
        /\ \A k \in 1..Len(chosen) :
               chosen[k].result.kind # "ok"
               => /\ k = Len(chosen)
                  /\ d_pc = "idle"
                  /\ d_result = chosen[k].result
                  /\ requests = 1 + k
        /\ store = before.store \o [k \in 1..Len(CreatedSignatures) |-> CreatedSignatures[k].sig]
        /\ [k \in 1..Len(chosen) |-> chosen[k].sig.Content]
               = Surviving(IF PostFailed THEN sigIndex ELSE sigIndex - 1)
        /\ ( /\ prev.op = "PutSignatures"
             /\ prev.postFailed
             /\ prev.signatures = signatures
             /\ prev.imageStreamImageName = d_imageStreamImageName )
           => \A k \in 1..Len(chosen) :
                  chosen[k].sig.Content \notin
                      AtomicContents(SignaturesOf(before.store, d_imageStreamImageName))

\* A re-run after a failed POST that skips the candidate stored by the first
\* run and POSTs the one whose POST had failed.
C10_Witness ==
    /\ PutSignaturesDone
    /\ d_result = Nil
    /\ prev.op = "PutSignatures"
    /\ prev.postFailed
    /\ prev.signatures = signatures
    /\ prev.imageStreamImageName = d_imageStreamImageName
    /\ Len(signatures) = 2
    /\ Len(chosen) = 1
    /\ chosen[1].sig.Content = signatures[2]
    /\ store = Append(before.store, chosen[1].sig)
    /\ Len(before.store) = 1
    /\ before.store[1].creator = "destination"

\* The signatures of the destination's image when the call began, which is
\* what its getImage was answered with.
Fetched ==
    SelectSeq(before.store, LAMBDA sg : sg.Name.image = d_imageStreamImageName)

\* Whether the fetched image has an atomic signature with content c.
Suppressed(c) ==
    \E j \in 1..Len(Fetched) : Fetched[j].Type = "atomic" /\ Fetched[j].Content = c

\* The candidates that are to be POSTed, in the order of the batch.
Uploads == SelectSeq(signatures, LAMBDA c : ~Suppressed(c))

\* C16: PutSignatures skips a candidate exactly when the fetched image has
\* a signature of type "atomic" with the candidate's content: the signatures
\* it POSTs are the other candidates, in the order of the batch (all of them
\* when it returns nil, the first ones when a step failed), whatever
\* signatures of other types and whatever names the image has; and every
\* signature it POSTs has type "atomic" and the candidate's content.
C16_SkipOnlyAtomicSameContent ==
    d_op = "PutSignatures" =>
        /\ Len(chosen) <= Len(Uploads)
        /\ \A k \in 1..Len(chosen) :
              /\ chosen[k].sig.Content = Uploads[k]
              /\ chosen[k].sig.Type = "atomic"
        /\ (PutSignaturesDone /\ d_result = Nil => Len(chosen) = Len(Uploads))

\* PutSignatures has POSTed a candidate although the fetched image has a
\* signature of another type with the same content.
C16_Witness ==
    /\ PutSignaturesDone
    /\ d_result = Nil
    /\ \E j \in 1..Len(Fetched), k \in 1..Len(chosen) :
          /\ Fetched[j].Type = "other"
          /\ Fetched[j].Content = chosen[k].sig.Content
          /\ chosen[k].result.kind = "ok"

\* Signatures of one image with one content, one created by each of the
\* two destinations.
TwiceStored(i, j) ==
    /\ store[i].creator = "destination"
    /\ store[j].creator = "peer"
    /\ store[i].Name.image = store[j].Name.image
    /\ store[i].Content = store[j].Content

\* C19: PutSignatures reads the image's signatures once, when it begins,
\* and every later request of the call is a POST decided on that reading.
\* So two destinations can store one content twice, and only when each of
\* them read before the other one POSTed; a destination that read after
\* the other's POST (serialized calls) POSTs nothing for that content.
C19_ReadOnceThenPost ==
    /\ ((d_op = "PutSignatures" /\ requests > 0) =>
          /\ requests = 1 + Len(chosen)
          /\ (d_pc = "loop" => image = Fetched))
    /\ \A i, j \in 1..Len(store) :
          TwiceStored(i, j) =>
              /\ \A k \in 1..Len(image) : image[k] # store[j]
              /\ \A k \in 1..Len(p_image) : p_image[k] # store[i]

\* Both destinations have created a signature of the same image with the
\* same content.
C19_Witness ==
    /\ PutSignaturesDone
    /\ p_pc = "done"
    /\ \E i, j \in 1..Len(store) : TwiceStored(i, j)

====
